---- MODULE Spec2Model ----
\* Topic-name validation, topic-filter validation and topic matching of
\* rumqttc (src/rumqttc/src/mqttbytes/topic.rs), with the client's
\* subscribe path that calls the filter validator.
EXTENDS Integers, Sequences, FiniteSets

VARIABLES
    s,        \* first string argument (topic name, filter, subject); its short, explicit part
    pad,      \* number of 'a' bytes (vec![97; pad]) appended to s to form the argument
    p,        \* second string argument of matches (the pattern)
    done,     \* the operations that have been called on the arguments; on a
              \* client, the last call made
    vt,       \* value returned by valid_topic
    vf,       \* value returned by valid_filter
    hw,       \* value returned by has_wildcards
    mr,       \* outcome of matches
    calls,    \* number of subscribe calls made on the client
    batch,    \* filters handed to the last subscribe call
    result,   \* what the last subscribe call returned
    requests  \* filters of the Subscribe requests handed to the event loop, in order

vars == <<s, pad, p, done, vt, vf, hw, mr, calls, batch, result, requests>>

----------------------------------------------------------------------------
\* Characters. A string is a sequence of characters; a character is named by
\* the text below and occupies utf8_len bytes.

NUL == "U+0000"
EACUTE == "U+00E9"

\* Number of bytes of the UTF-8 encoding of a character.
utf8_len(c) == IF c = EACUTE THEN 2 ELSE 1

\* Characters of the validated strings.
Alphabet == {"a", "/", "+", "#", "$", "\\", "0", NUL, EACUTE}

\* Characters of the matched strings.
MatchAlphabet == {"a", "/", "+", "#", "$", EACUTE}

\* Largest number of bytes of an MQTT UTF-8 string.
MaxTopicBytes == 65535

\* Longest explicitly enumerated validated string, in characters.
MaxLen == 3
\* Longest subject and pattern, in characters.
MaxMatchLen == 3
\* Longest filter and longest topic of the subsumption test, in characters.
MaxFilterLen == 3
\* Most filters in one subscribe_many call.
MaxBatch == 2
\* Most subscribe calls made on one client.
MaxCalls == 2
StringsUpTo(alphabet, n) == UNION {[1..k -> alphabet] : k \in 0..n}

\* vec![97; n] as a string
Repeat(n) == [i \in 1..n |-> "a"]

\* The string a state stands for.
Arg == IF pad = 0 THEN s ELSE s \o Repeat(pad)

----------------------------------------------------------------------------
\* str primitives

\* str::len: the length in bytes
len(str) == Len(str) + Cardinality({i \in 1..Len(str) : utf8_len(str[i]) = 2})

is_empty(str) == Len(str) = 0

\* str::contains(char)
contains(str, c) == \E i \in 1..Len(str) : str[i] = c

\* str::split('/'), from character position start on
RECURSIVE split_from(_, _)
split_from(str, start) ==
    LET slashes == {i \in start..Len(str) : str[i] = "/"}
    IN  IF slashes = {}
        THEN <<SubSeq(str, start, Len(str))>>
        ELSE LET i == CHOOSE j \in slashes : \A k \in slashes : j <= k
             IN  <<SubSeq(str, start, i - 1)>> \o split_from(str, i + 1)

split(str) == split_from(str, 1)

\* str::is_char_boundary(idx), idx counted in bytes
is_char_boundary(str, idx) ==
    \E k \in 0..Len(str) : len(SubSeq(str, 1, k)) = idx

----------------------------------------------------------------------------
\* has_wildcards

has_wildcards(str) == contains(str, "+") \/ contains(str, "#")

\* valid_topic

\* valid_topic with the length test off by one
valid_topic_len_ge(topic) ==
    IF contains(topic, "+") THEN "ContainsWildCards"
    ELSE IF contains(topic, "#") THEN "ContainsWildCards"
    ELSE IF is_empty(topic) THEN "EmptyTopic"
    ELSE IF contains(topic, NUL) THEN "ContainsNull"
    ELSE IF len(topic) >= MaxTopicBytes THEN "TooLong"
    ELSE "Ok"

\* valid_topic without the test for '#'
valid_topic_no_hash(topic) ==
    IF contains(topic, "+") THEN "ContainsWildCards"
    ELSE IF is_empty(topic) THEN "EmptyTopic"
    ELSE IF contains(topic, NUL) THEN "ContainsNull"
    ELSE IF len(topic) > MaxTopicBytes THEN "TooLong"
    ELSE "Ok"

valid_topic(topic) ==
    IF contains(topic, "+") THEN "ContainsWildCards"
    ELSE IF contains(topic, "#") THEN "ContainsWildCards"
    ELSE IF is_empty(topic) THEN "EmptyTopic"
    ELSE IF contains(topic, NUL) THEN "ContainsNull"
    ELSE IF len(topic) > MaxTopicBytes THEN "TooLong"
    ELSE "Ok"

\* valid_filter

\* valid_filter with the test of the last entry requiring both markers
valid_filter_last_and(filter) ==
    IF is_empty(filter) THEN FALSE
    ELSE LET hirerarchy == split(filter)
             last == hirerarchy[Len(hirerarchy)]
             remaining == SubSeq(hirerarchy, 1, Len(hirerarchy) - 1)
         IN  IF \E k \in 1..Len(remaining) :
                    \/ contains(remaining[k], "#")
                    \/ len(remaining[k]) > 1 /\ contains(remaining[k], "+")
             THEN FALSE
             ELSE IF len(last) # 1 /\ (contains(last, "#") /\ contains(last, "+"))
             THEN FALSE
             ELSE TRUE

valid_filter(filter) ==
    IF is_empty(filter) THEN FALSE
    ELSE LET hirerarchy == split(filter)
             last == hirerarchy[Len(hirerarchy)]
             remaining == SubSeq(hirerarchy, 1, Len(hirerarchy) - 1)
         IN  IF \E k \in 1..Len(remaining) :
                    \/ contains(remaining[k], "#")
                    \/ len(remaining[k]) > 1 /\ contains(remaining[k], "+")
             THEN FALSE
             ELSE IF len(last) # 1 /\ (contains(last, "#") \/ contains(last, "+"))
             THEN FALSE
             ELSE TRUE

----------------------------------------------------------------------------
\* matches

\* A call that returned b, and a call that panicked.
Ret(b) == [panic |-> FALSE, value |-> b]
Panic == [panic |-> TRUE, value |-> FALSE]

\* The loop over the filter's segments and the check after it; topics and
\* filters are the segments the two iterators have not yielded yet.
RECURSIVE match_loop_no_hash_arm(_, _)
\* match_loop without the arm that returns false for a "#" topic segment
match_loop_no_hash_arm(topics, filters) ==
    IF filters = <<>>
    THEN topics = <<>>
    ELSE LET f == Head(filters)
         IN  IF f = <<"#">> THEN TRUE
             ELSE IF topics = <<>> THEN FALSE
             ELSE LET t == Head(topics)
                  IN  IF f = <<"+">>
                      THEN match_loop_no_hash_arm(Tail(topics), Tail(filters))
                      ELSE IF f # t THEN FALSE
                      ELSE match_loop_no_hash_arm(Tail(topics), Tail(filters))

RECURSIVE match_loop(_, _)
match_loop(topics, filters) ==
    IF filters = <<>>
    THEN topics = <<>>
    ELSE LET f == Head(filters)
         IN  IF f = <<"#">> THEN TRUE
             ELSE IF topics = <<>> THEN FALSE
             ELSE LET t == Head(topics)
                  IN  IF t = <<"#">> THEN FALSE
                      ELSE IF f = <<"+">> THEN match_loop(Tail(topics), Tail(filters))
                      ELSE IF f # t THEN FALSE
                      ELSE match_loop(Tail(topics), Tail(filters))

matches(topic, filter) ==
    IF ~is_empty(topic) /\ ~is_char_boundary(topic, 1)
    THEN Panic
    ELSE IF ~is_empty(topic) /\ topic[1] = "$"
    THEN Ret(FALSE)
    ELSE Ret(match_loop(split(topic), split(filter)))

----------------------------------------------------------------------------
\* Validation: the three validators applied to one string.

\* The long arguments: at most one explicit character followed by a run of
\* 'a' that brings the length to either side of MaxTopicBytes.
LongPrefixes == {<<>>} \cup {<<c>> : c \in Alphabet}
PadLengths == (MaxTopicBytes - 2)..(MaxTopicBytes + 1)

Init ==
    /\ \/ s \in StringsUpTo(Alphabet, MaxLen) /\ pad = 0
       \/ s \in LongPrefixes /\ pad \in PadLengths
    /\ p = <<>>
    /\ done = {}
    /\ vt = "Ok"
    /\ vf = FALSE
    /\ hw = FALSE
    /\ mr = Ret(FALSE)
    /\ calls = 0
    /\ batch = <<>>
    /\ result = "Ok"
    /\ requests = <<>>

CallHasWildcards ==
    /\ "has_wildcards" \notin done
    /\ hw' = has_wildcards(Arg)
    /\ done' = done \cup {"has_wildcards"}
    /\ UNCHANGED <<s, pad, p, vt, vf, mr, calls, batch, result, requests>>

CallValidTopic ==
    /\ "valid_topic" \notin done
    /\ vt' = valid_topic(Arg)
    /\ done' = done \cup {"valid_topic"}
    /\ UNCHANGED <<s, pad, p, vf, hw, mr, calls, batch, result, requests>>

CallValidFilter ==
    /\ "valid_filter" \notin done
    /\ vf' = valid_filter(Arg)
    /\ done' = done \cup {"valid_filter"}
    /\ UNCHANGED <<s, pad, p, vt, hw, mr, calls, batch, result, requests>>

Next == CallHasWildcards \/ CallValidTopic \/ CallValidFilter

Spec == Init /\ [][Next]_vars

----------------------------------------------------------------------------
\* Matching: matches applied to a subject and a pattern.

MatchInit ==
    /\ s \in StringsUpTo(MatchAlphabet, MaxMatchLen)
    /\ p \in StringsUpTo(MatchAlphabet, MaxMatchLen)
    /\ pad = 0
    /\ done = {}
    /\ vt = "Ok"
    /\ vf = FALSE
    /\ hw = FALSE
    /\ mr = Ret(FALSE)
    /\ calls = 0
    /\ batch = <<>>
    /\ result = "Ok"
    /\ requests = <<>>

CallMatches ==
    /\ "matches" \notin done
    /\ mr' = matches(Arg, p)
    /\ done' = done \cup {"matches"}
    /\ UNCHANGED <<s, pad, p, vt, vf, hw, calls, batch, result, requests>>

MatchNext == CallMatches

MatchSpec == MatchInit /\ [][MatchNext]_vars

----------------------------------------------------------------------------
\* Subsumption: matches applied to two filters that passed valid_filter, as
\* a broker does with the filters of its subscriptions.

ValidFilters == {f \in StringsUpTo(MatchAlphabet, MaxFilterLen) : valid_filter(f)}

SubsumeInit ==
    /\ s \in ValidFilters
    /\ p \in ValidFilters
    /\ pad = 0
    /\ done = {}
    /\ vt = "Ok"
    /\ vf = TRUE
    /\ hw = FALSE
    /\ mr = Ret(FALSE)
    /\ calls = 0
    /\ batch = <<>>
    /\ result = "Ok"
    /\ requests = <<>>

SubsumeNext == CallMatches

SubsumeSpec == SubsumeInit /\ [][SubsumeNext]_vars

----------------------------------------------------------------------------
\* Client: subscribe and subscribe_many validate their filters before they
\* hand a Subscribe request to the event loop.

\* Filters the calls are made with, after the lists of the validation test.
FilterPool == {<<>>, <<"#", "/", "a">>, <<"a">>, <<"#">>}

Batches == UNION {[1..k -> FilterPool] : k \in 0..MaxBatch}

\* subscribe_many that hands over the valid filters of a rejected batch
subscribe_many_partial(filters) ==
    IF \A i \in 1..Len(filters) : valid_filter(filters[i])
    THEN [result |-> "Ok", request |-> <<filters>>]
    ELSE [result |-> "InvalidFilter",
          request |-> <<SelectSeq(filters, valid_filter)>>]

\* What a subscribe call on the given filters returns, and the requests it
\* hands to the event loop.
subscribe_many(filters) ==
    IF \A i \in 1..Len(filters) : valid_filter(filters[i])
    THEN [result |-> "Ok", request |-> <<filters>>]
    ELSE [result |-> "InvalidFilter", request |-> <<>>]

subscribe(filter) == subscribe_many(<<filter>>)

ClientInit ==
    /\ s = <<>>
    /\ p = <<>>
    /\ pad = 0
    /\ done = {}
    /\ vt = "Ok"
    /\ vf = FALSE
    /\ hw = FALSE
    /\ mr = Ret(FALSE)
    /\ calls = 0
    /\ batch = <<>>
    /\ result = "Ok"
    /\ requests = <<>>

CallSubscribe ==
    /\ calls < MaxCalls
    /\ \E filter \in FilterPool :
          /\ batch' = <<filter>>
          /\ result' = subscribe(filter).result
          /\ requests' = requests \o subscribe(filter).request
    /\ calls' = calls + 1
    /\ done' = {"subscribe"}
    /\ UNCHANGED <<s, pad, p, vt, vf, hw, mr>>

CallSubscribeMany ==
    /\ calls < MaxCalls
    /\ \E filters \in Batches :
          /\ batch' = filters
          /\ result' = subscribe_many(filters).result
          /\ requests' = requests \o subscribe_many(filters).request
    /\ calls' = calls + 1
    /\ done' = {"subscribe_many"}
    /\ UNCHANGED <<s, pad, p, vt, vf, hw, mr>>

ClientNext == CallSubscribe \/ CallSubscribeMany

ClientSpec == ClientInit /\ [][ClientNext]_vars

----------------------------------------------------------------------------
\* Properties of the validators

\* The number of bytes of a string, counted per character width.
ByteCount(str) ==
    Cardinality({i \in 1..Len(str) : str[i] # EACUTE})
        + 2 * Cardinality({i \in 1..Len(str) : str[i] = EACUTE})

Wild(str) == \E i \in 1..Len(str) : str[i] \in {"+", "#"}
HasNul(str) == \E i \in 1..Len(str) : str[i] = NUL

\* The reason valid_topic is to report: the first rule, in the fixed order,
\* that the string breaks.
FirstReason(str) ==
    CASE Wild(str) -> "ContainsWildCards"
      [] ~Wild(str) /\ str = <<>> -> "EmptyTopic"
      [] ~Wild(str) /\ str # <<>> /\ HasNul(str) -> "ContainsNull"
      [] ~Wild(str) /\ str # <<>> /\ ~HasNul(str)
            /\ ByteCount(str) > MaxTopicBytes -> "TooLong"
      [] OTHER -> "Ok"

\* C1: valid_topic reports the reason of the first rule broken, in the order
\* wildcard, empty, null, too long, and Ok when none is; EmptyTopic is
\* reported exactly for the empty string; a name of 65535 'a' bytes is Ok and
\* one of 65536 is TooLong.
C1_TopicReasonOrder ==
    "valid_topic" \in done =>
        /\ vt = FirstReason(Arg)
        /\ (vt = "EmptyTopic") <=> (Arg = <<>>)
        /\ (s = <<>> /\ pad = MaxTopicBytes) => vt = "Ok"
        /\ (s = <<>> /\ pad = MaxTopicBytes + 1) => vt = "TooLong"

\* A name of 65536 bytes that contains '#', so that it breaks the wildcard
\* and the length rule at once, has been validated.
C1_Witness ==
    /\ "valid_topic" \in done
    /\ s = <<"#">> /\ pad = MaxTopicBytes
    /\ vt = "ContainsWildCards"

\* Position i of str starts a segment / ends a segment.
SegStart(str, i) == i = 1 \/ str[i - 1] = "/"
SegEnd(str, i) == i = Len(str) \/ str[i + 1] = "/"

\* A well-formed filter: not empty, every '+' is a whole segment, and every
\* '#' is a whole segment and the last one.
WellFormedFilter(str) ==
    /\ str # <<>>
    /\ \A i \in 1..Len(str) :
          /\ str[i] = "+" => SegStart(str, i) /\ SegEnd(str, i)
          /\ str[i] = "#" => SegStart(str, i) /\ i = Len(str)

C3_FilterLengthLimit ==
    "valid_filter" \in done =>
        /\ ByteCount(Arg) > MaxTopicBytes => ~vf
        /\ (s = <<>> /\ pad = MaxTopicBytes) => vf

\* C4: every filter that contains U+0000 is rejected by valid_filter, and the
\* filter made of a backslash and a '0' is accepted.
C4_FilterRejectsNul ==
    "valid_filter" \in done =>
        /\ HasNul(Arg) => ~vf
        /\ (s = <<"\\", "0">> /\ pad = 0) => vf

\* C10: a string valid_topic accepts is accepted by valid_filter.
C10_TopicIsFilter ==
    ({"valid_topic", "valid_filter"} \subseteq done /\ vt = "Ok") => vf

\* A name of exactly 65535 bytes has passed both validators.
C10_Witness ==
    /\ {"valid_topic", "valid_filter"} \subseteq done
    /\ pad > 0 /\ ByteCount(Arg) = MaxTopicBytes
    /\ vt = "Ok" /\ vf

----------------------------------------------------------------------------
\* Properties of matches

Dollar(str) == str # <<>> /\ str[1] = "$"

\* C5: a subject whose first character is '$' matches no pattern; for any
\* other subject the result is the one of the segment-wise walk.
C5_DollarExclusion ==
    "matches" \in done =>
        /\ Dollar(s) => mr = Ret(FALSE)
        /\ ~Dollar(s) => mr = Ret(match_loop(split(s), split(p)))

\* Topic segments t are covered by filter segments f.
Covers(t, f) ==
    LET n == Len(t)
        m == Len(f)
    IN  \/ /\ f[m] = <<"#">>
           /\ n >= m - 1
           /\ \A i \in 1..(m - 1) : f[i] = <<"+">> \/ f[i] = t[i]
        \/ /\ f[m] # <<"#">>
           /\ n = m
           /\ \A i \in 1..m : f[i] = <<"+">> \/ f[i] = t[i]

\* C6: for a valid topic that does not start with '$' and a valid filter,
\* matches is true exactly when the filter's segments cover the topic's.
C6_MatchesIsCoverage ==
    ("matches" \in done /\ valid_topic(s) = "Ok" /\ ~Dollar(s) /\ valid_filter(p))
        => mr = Ret(Covers(split(s), split(p)))

\* C9: matches returns a boolean for every pair of strings.
C9_MatchesTotal ==
    "matches" \in done => ~mr.panic

\* The topic names the subsumption is judged on.
ValidTopics ==
    {t \in StringsUpTo(MatchAlphabet, MaxFilterLen) : valid_topic(t) = "Ok"}

\* The walk over subject segments ts and pattern segments fs examines a pair
\* made of the subject segment "#" and a pattern segment other than "#".
PairsHashWithOther(ts, fs) ==
    \E i \in 1..Len(ts) :
        /\ i <= Len(fs)
        /\ ts[i] = <<"#">>
        /\ \A j \in 1..i : fs[j] # <<"#">>
        /\ \A j \in 1..(i - 1) : fs[j] = <<"+">> \/ fs[j] = ts[j]

----------------------------------------------------------------------------
\* Properties of the client

\* C8: a subscribe_many call with a filter that valid_filter rejects returns
\* InvalidFilter and hands no request to the event loop; one whose filters
\* are all valid returns Ok.
C8_BatchAllOrNothing ==
    [][(calls' = calls + 1 /\ done' = {"subscribe_many"}) =>
          IF \E i \in 1..Len(batch') : ~valid_filter(batch'[i])
          THEN result' = "InvalidFilter" /\ requests' = requests
          ELSE result' = "Ok"]_vars

\* After an accepted call, a batch of a valid and an invalid filter has been
\* refused and the requests are those of the accepted call alone.
C8_Witness ==
    /\ done = {"subscribe_many"}
    /\ calls = 2
    /\ batch = <<<<"a">>, <<"#", "/", "a">>>>
    /\ result = "InvalidFilter"
    /\ requests = <<<<<<"#">>>>>>

====
